---- MODULE Spec2Model ----
(***************************************************************************)
(* Inverse operation invocation of PROJ (src/src/pj_inv.c): the static     *)
(* stages pj_inv_prepare and pj_inv_finalize and the three entry points    *)
(* pj_inv, pj_inv3d and pj_inv4d.                                          *)
(*                                                                         *)
(* Doubles are modelled by integers in a unit in which PJ_EPS_LAT is 1.    *)
(* HUGE_VAL (+infinity) is one reserved integer that every arithmetic      *)
(* helper absorbs, as IEEE-754 addition and multiplication by a positive   *)
(* finite number do.  A PJ_COORD is the 4-tuple <<v[0],v[1],v[2],v[3]>>;   *)
(* the union views xy/lp, xyz/lpz share the leading components.  NaN and   *)
(* -infinity are not among the values modelled.                            *)
(***************************************************************************)
EXTENDS Integers, Sequences, FiniteSets, TLC

VARIABLES P, pc, call, log, trace, result

vars == <<P, pc, call, log, trace, result>>

(* ------------------------------ numbers -------------------------------- *)

HUGE_VAL == 999
M_HALFPI == 3
M_PI == 2 * M_HALFPI
PJ_EPS_LAT == 1
LonLimit == 19

\* How far beyond the range-check limits the input coordinates reach, and how
\* many finite heights and times are tried.
MaxOver == 1

FAdd(a, b) == IF a = HUGE_VAL \/ b = HUGE_VAL THEN HUGE_VAL ELSE a + b
FSub(a, b) == IF a = HUGE_VAL \/ b = HUGE_VAL THEN HUGE_VAL ELSE a - b
FMul(k, a) == IF a = HUGE_VAL THEN HUGE_VAL ELSE k * a

proj_coord_error == <<HUGE_VAL, HUGE_VAL, HUGE_VAL, HUGE_VAL>>

\* adjlon: reduce a longitude to the -pi:pi range.
adjlon(lon) ==
    IF lon = HUGE_VAL THEN HUGE_VAL
    ELSE IF (IF lon < 0 THEN -lon ELSE lon) <= M_PI THEN lon
    ELSE ((lon + M_PI) % (2 * M_PI)) - M_PI

(* --------------------------- error codes ------------------------------- *)

NoError == "0"
PJD_ERR_INVALID_X_OR_Y == "PJD_ERR_INVALID_X_OR_Y"
PJD_ERR_LAT_OR_LON_EXCEED_LIMIT == "PJD_ERR_LAT_OR_LON_EXCEED_LIMIT"
EINVAL == "EINVAL"

(* ------------------------------- units --------------------------------- *)

PJ_IO_UNITS_WHATEVER == "WHATEVER"
PJ_IO_UNITS_CLASSIC == "CLASSIC"
PJ_IO_UNITS_PROJECTED == "PROJECTED"
PJ_IO_UNITS_CARTESIAN == "CARTESIAN"
PJ_IO_UNITS_ANGULAR == "ANGULAR"

IoUnits == {PJ_IO_UNITS_WHATEVER, PJ_IO_UNITS_CLASSIC, PJ_IO_UNITS_PROJECTED,
            PJ_IO_UNITS_CARTESIAN, PJ_IO_UNITS_ANGULAR}

(* --------------------------- sub-operations ---------------------------- *)

\* One call may meet at most one failing collaborator: `who` names it and
\* `how` the coordinate it hands back, "err" for proj_coord_error() and
\* "lam" for a coordinate whose first component alone is HUGE_VAL.
NoFault == [who |-> "none", how |-> "none"]

SetLamOf(c, lam) == <<lam, c[2], c[3], c[4]>>
SetPhiOf(c, phi) == <<c[1], phi, c[3], c[4]>>

Shift(coo, d) ==
    <<FAdd(coo[1], d[1]), FAdd(coo[2], d[2]), FAdd(coo[3], d[3]), FAdd(coo[4], d[4])>>

\* What a sub-operation answers when it does not fail.
SubOpOk(op, dir, coo) ==
    CASE op = "axisswap"   -> <<coo[2], coo[1], coo[3], coo[4]>>
      [] op = "hgridshift" -> Shift(coo, <<1, 1, 0, 0>>)
      [] op = "vgridshift" -> Shift(coo, <<0, 0, 1, 0>>)
      [] op = "cart"       -> IF dir = "PJ_FWD" THEN Shift(coo, <<2, 1, 1, 0>>)
                                               ELSE Shift(coo, <<-2, -1, -1, 0>>)
      [] op = "helmert"    -> Shift(coo, <<1, 0, 1, 1>>)
      [] op = "cart_wgs84" -> Shift(coo, <<-2, -1, -1, 0>>)

proj_trans(op, dir, coo, o) ==
    IF o.who = op
    THEN IF o.how = "err" THEN proj_coord_error
         ELSE SetLamOf(SubOpOk(op, dir, coo), HUGE_VAL)
    ELSE SubOpOk(op, dir, coo)

\* proj_geocentric_latitude: only the latitude changes; the poles and the
\* equator are fixed points.
proj_geocentric_latitude(dir, coo) ==
    LET phi == coo[2]
        a == IF phi < 0 THEN -phi ELSE phi
        s == IF phi < 0 THEN -1 ELSE 1
    IN IF phi = HUGE_VAL \/ a = 0 \/ a >= M_HALFPI THEN coo
       ELSE IF dir = "PJ_INV"
            THEN SetPhiOf(coo, IF a + 1 >= M_HALFPI THEN phi ELSE phi + s)
            ELSE SetPhiOf(coo, IF a - 1 <= 0 THEN phi ELSE phi - s)

\* A stage's running value: the coordinate, the error code recorded in the
\* descriptor so far, and the sub-operations called so far.
Logged(st, stage, op, dir, r) ==
    [st EXCEPT !.coo = r,
               !.log = Append(st.log, [stage |-> stage, op |-> op, dir |-> dir,
                                       arg |-> st.coo, ret |-> r])]

Step(st, stage, op, dir, o) ==
    Logged(st, stage, op, dir, proj_trans(op, dir, st.coo, o))

GeocStep(st, stage, dir) ==
    Logged(st, stage, "geoc", dir, proj_geocentric_latitude(dir, st.coo))

SetLam(st, lam) == [st EXCEPT !.coo = SetLamOf(st.coo, lam)]

\* proj_errno_set records the code in the descriptor.
proj_errno_set(st, code) == [st EXCEPT !.errno = code]

\* proj_errno_set (P, code); return proj_coord_error ();
Fail(st, code) == [proj_errno_set(st, code) EXCEPT !.coo = proj_coord_error]

(* ------------------------------ Prepare -------------------------------- *)

\* A fill that forgets the fourth component.
HelmertFill_HeightOnly(D, coo) ==
    <<coo[1], coo[2], IF HUGE_VAL = coo[3] /\ D.helmert THEN 0 ELSE coo[3], coo[4]>>

\* The helmert datum shift will choke unless it gets a sensible 4D coordinate
HelmertFill(D, coo) ==
    <<coo[1], coo[2], IF HUGE_VAL = coo[3] /\ D.helmert THEN 0 ELSE coo[3],
                      IF HUGE_VAL = coo[4] /\ D.helmert THEN 0 ELSE coo[4]>>

\* A range check that forgets the lower longitude limit.
LatLonOverRange_NoLower(coo) ==
    LET t == FSub(IF coo[2] < 0 THEN -coo[2] ELSE coo[2], M_HALFPI)
    IN t > PJ_EPS_LAT \/ coo[1] > LonLimit

\* A range check on the distance of |lat| from the pole in either direction.
LatLonOverRange_AbsDistance(coo) ==
    LET t == FSub(IF coo[2] < 0 THEN -coo[2] ELSE coo[2], M_HALFPI)
    IN (IF t < 0 THEN -t ELSE t) > PJ_EPS_LAT \/ coo[1] > LonLimit \/ coo[1] < -LonLimit

\* check for latitude or longitude over-range
LatLonOverRange(coo) ==
    LET t == FSub(IF coo[2] < 0 THEN -coo[2] ELSE coo[2], M_HALFPI)
    IN t > PJ_EPS_LAT \/ coo[1] > LonLimit \/ coo[1] < -LonLimit

\* Clamp latitude to -90..90 degree range
ClampLatitude(coo) ==
    LET c1 == IF coo[2] > M_HALFPI THEN SetPhiOf(coo, M_HALFPI) ELSE coo
    IN IF c1[2] < -M_HALFPI THEN SetPhiOf(c1, -M_HALFPI) ELSE c1

\* The horizontal datum correction: the grid shift, else the Helmert chain.
DatumShift(D, st, stage, o) ==
    IF D.hgridshift THEN Step(st, stage, "hgridshift", "PJ_FWD", o)
    ELSE IF D.helmert
    THEN Step(Step(Step(st, stage, "cart", "PJ_FWD", o),
                   stage, "helmert", "PJ_FWD", o),
              stage, "cart_wgs84", "PJ_INV", o)
    ELSE st

\* if (coo.lp.lam==HUGE_VAL) return coo; then the vertical grid shift
PrepareVertical(D, st, o) ==
    IF st.coo[1] = HUGE_VAL THEN st
    ELSE IF D.vgridshift THEN Step(st, "prepare", "vgridshift", "PJ_INV", o)
    ELSE st

\* Ensure longitude is in the -pi:pi range
PrepareAdjust(D, st) ==
    IF D.over = 0 THEN SetLam(st, adjlon(st.coo[1])) ELSE st

\* Distance from central meridian, taking system zero meridian into account
PrepareMeridian(D, st) ==
    SetLam(st, FSub(FAdd(st.coo[1], D.from_greenwich), D.lam0))

\* If input latitude is geocentrical, convert to geographical
PrepareGeoc(D, st) ==
    IF D.geoc THEN GeocStep(st, "prepare", "PJ_INV") ELSE st

PrepareClamp(st) == [st EXCEPT !.coo = ClampLatitude(st.coo)]

PrepareAngular(D, st, o) ==
    IF LatLonOverRange(st.coo) THEN Fail(st, PJD_ERR_LAT_OR_LON_EXCEED_LIMIT)
    ELSE PrepareVertical(D,
            DatumShift(D,
                PrepareAdjust(D, PrepareMeridian(D, PrepareGeoc(D, PrepareClamp(st)))),
                "prepare", o),
            o)

\* de-scale and de-offset, the height by the factor vscale
Descale(D, c, vscale) ==
    <<FSub(FMul(D.to_meter, c[1]), D.x0), FSub(FMul(D.to_meter, c[2]), D.y0),
      FSub(FMul(vscale, c[3]), D.z0), c[4]>>

Descaled(D, st, vscale) == [st EXCEPT !.coo = Descale(D, st.coo, vscale)]

PrepareGeocent(D, st, o) ==
    IF D.is_geocent THEN Step(st, "prepare", "cart", "PJ_INV", o) ELSE st

PrepareCartesian(D, st, o) == PrepareGeocent(D, Descaled(D, st, D.to_meter), o)

\* Classic proj.4 functions expect plane coordinates in units of the semimajor axis
PrepareClassic(D, st) ==
    IF D.right = PJ_IO_UNITS_PROJECTED THEN st
    ELSE [st EXCEPT !.coo = <<FMul(D.ra, st.coo[1]), FMul(D.ra, st.coo[2]),
                              st.coo[3], st.coo[4]>>]

PrepareProjected(D, st) == PrepareClassic(D, Descaled(D, st, D.vto_meter))

\* A unit switch without the passthrough case.
PrepareLinear_NoPassthrough(D, st, o) ==
    IF D.right = PJ_IO_UNITS_CARTESIAN THEN PrepareCartesian(D, st, o)
    ELSE PrepareProjected(D, st)

\* Handle remaining possible input types
PrepareLinear(D, st, o) ==
    CASE D.right = PJ_IO_UNITS_WHATEVER -> st
      [] D.right = PJ_IO_UNITS_CARTESIAN -> PrepareCartesian(D, st, o)
      [] D.right \in {PJ_IO_UNITS_PROJECTED, PJ_IO_UNITS_CLASSIC} -> PrepareProjected(D, st)
      [] OTHER -> st

PrepareUnits(D, st, o) ==
    IF D.right = PJ_IO_UNITS_ANGULAR THEN PrepareAngular(D, st, o)
    ELSE PrepareLinear(D, st, o)

PrepareSwap(D, st, o) ==
    IF D.axisswap THEN Step(st, "prepare", "axisswap", "PJ_INV", o) ELSE st

PrepareFill(D, st) == [st EXCEPT !.coo = HelmertFill(D, st.coo)]

pj_inv_prepare(D, st, o) ==
    IF st.coo[1] = HUGE_VAL THEN Fail(st, PJD_ERR_INVALID_X_OR_Y)
    ELSE PrepareUnits(D, PrepareSwap(D, PrepareFill(D, st), o), o)

(* ------------------------------ Finalize ------------------------------- *)

\* If input latitude was geocentrical, convert back to geocentrical
FinalizeGeoc(D, st) ==
    IF D.geoc THEN GeocStep(st, "finalize", "PJ_FWD") ELSE st

\* if (coo.lp.lam==HUGE_VAL) return coo; after the horizontal correction
FinalizeShifted(D, st) ==
    IF st.coo[1] = HUGE_VAL THEN st ELSE FinalizeGeoc(D, st)

\* if (coo.lp.lam==HUGE_VAL) return coo; after the vertical grid shift
FinalizeHorizontal(D, st, o) ==
    IF st.coo[1] = HUGE_VAL THEN st
    ELSE FinalizeShifted(D, DatumShift(D, st, "finalize", o))

FinalizeVertical(D, st, o) ==
    IF D.vgridshift THEN Step(st, "finalize", "vgridshift", "PJ_INV", o) ELSE st

\* adjust longitude to central meridian
FinalizeAdjust(D, st) ==
    IF D.over = 0 THEN SetLam(st, adjlon(st.coo[1])) ELSE st

\* Distance from central meridian, taking system zero meridian into account
FinalizeMeridian(D, st) ==
    SetLam(st, FAdd(FAdd(st.coo[1], D.from_greenwich), D.lam0))

FinalizeAngular(D, st, o) ==
    IF D.right # PJ_IO_UNITS_ANGULAR
    THEN FinalizeHorizontal(D,
            FinalizeVertical(D, FinalizeAdjust(D, FinalizeMeridian(D, st)), o), o)
    ELSE FinalizeGeoc(D, st)

pj_inv_finalize(D, st, o) ==
    IF st.coo[1] = HUGE_VAL THEN Fail(st, PJD_ERR_INVALID_X_OR_Y)
    ELSE IF D.left = PJ_IO_UNITS_ANGULAR THEN FinalizeAngular(D, st, o)
    ELSE st

(* ------------------------------ Dispatch ------------------------------- *)

\* The order in which each entry point looks for a transform function.
Order_pj_inv == <<"inv", "inv3d", "inv4d">>
Order_pj_inv3d == <<"inv3d", "inv4d", "inv">>
Order_pj_inv4d == <<"inv4d", "inv3d", "inv">>

Has(D, f) ==
    CASE f = "inv" -> D.inv [] f = "inv3d" -> D.inv3d [] f = "inv4d" -> D.inv4d

\* A selection that tries the last fallback before the second.
Select_LastFirst(D, order) ==
    IF Has(D, order[1]) THEN order[1]
    ELSE IF Has(D, order[3]) THEN order[3]
    ELSE IF Has(D, order[2]) THEN order[2]
    ELSE "none"

Select(D, order) ==
    IF Has(D, order[1]) THEN order[1]
    ELSE IF Has(D, order[2]) THEN order[2]
    ELSE IF Has(D, order[3]) THEN order[3]
    ELSE "none"

Width(f) == CASE f = "inv" -> 2 [] f = "inv3d" -> 3 [] f = "inv4d" -> 4

\* What the descriptor's transform function answers: a coordinate of the
\* function's own width (LP, LPZ or PJ_COORD).
View(w, c) ==
    CASE w = 2 -> <<c[1], c[2]>>
      [] w = 3 -> <<c[1], c[2], c[3]>>
      [] w = 4 -> <<c[1], c[2], c[3], c[4]>>

Transform(f, coo, o) ==
    LET ok == Shift(coo, <<1, 1, 1, 1>>)
    IN IF o.who = f
       THEN View(Width(f), proj_coord_error)
       ELSE View(Width(f), ok)

\* An assignment of the whole coordinate, zero beyond the function's width.
Assign_Whole(coo, r) ==
    <<r[1], r[2], IF Len(r) >= 3 THEN r[3] ELSE 0, IF Len(r) >= 4 THEN r[4] ELSE 0>>

\* coo.lp = P->inv(coo.xy, P), coo.lpz = P->inv3d(coo.xyz, P), coo = P->inv4d(coo, P):
\* the components beyond the function's width keep their values.
Assign(coo, r) ==
    <<r[1], r[2], IF Len(r) >= 3 THEN r[3] ELSE coo[3],
                  IF Len(r) >= 4 THEN r[4] ELSE coo[4]>>

Dispatch(f, st, o) ==
    Logged(st, "dispatch", f, "PJ_INV", Assign(st.coo, Transform(f, st.coo, o)))

NoCoord == <<0, 0, 0, 0>>
NoTrace == [prepRan |-> FALSE, prepOut |-> NoCoord, prepErr |-> NoError, xf |-> "none",
            xfIn |-> NoCoord, xfOut |-> NoCoord, finRan |-> FALSE, finOut |-> NoCoord]

\* What a call did, for the properties: the stages run and their coordinates.
TracePrepare(D, s1) ==
    [NoTrace EXCEPT !.prepRan = ~D.skip_inv_prepare, !.prepOut = s1.coo,
                    !.prepErr = s1.errno]
TraceDispatch(D, f, s1, s2) ==
    [TracePrepare(D, s1) EXCEPT !.xf = f, !.xfIn = s1.coo, !.xfOut = s2.coo]
TraceFinalize(D, f, s1, s2, s3) ==
    [TraceDispatch(D, f, s1, s2) EXCEPT !.finRan = ~D.skip_inv_finalize,
                                        !.finOut = s3.coo]

Outcome(st, tr, coo) == [coo |-> coo, errno |-> st.errno, log |-> st.log, tr |-> tr]

\* if (!P->skip_inv_finalize) coo = pj_inv_finalize (P, coo); return coo
Finished(D, f, s1, s2, s3) == Outcome(s3, TraceFinalize(D, f, s1, s2, s3), s3.coo)

\* if (HUGE_VAL==coo.v[0]) return proj_coord_error (), after the transform
Dispatched(D, f, s1, s2, o) ==
    IF s2.coo[1] = HUGE_VAL THEN Outcome(s2, TraceDispatch(D, f, s1, s2), proj_coord_error)
    ELSE Finished(D, f, s1, s2,
                  IF ~D.skip_inv_finalize THEN pj_inv_finalize(D, s2, o) ELSE s2)

\* Do the transformation, or proj_errno_set (P, EINVAL)
Selected(D, f, s1, o) ==
    IF f = "none" THEN Outcome(Fail(s1, EINVAL), TracePrepare(D, s1), proj_coord_error)
    ELSE Dispatched(D, f, s1, Dispatch(f, s1, o), o)

\* if (HUGE_VAL==coo.v[0]) return proj_coord_error (), after Prepare
Prepared(D, order, s1, o) ==
    IF s1.coo[1] = HUGE_VAL THEN Outcome(s1, TracePrepare(D, s1), proj_coord_error)
    ELSE Selected(D, Select(D, order), s1, o)

Started(D, coo0) == [coo |-> coo0, errno |-> D.errno, log |-> <<>>]

\* The body shared by pj_inv, pj_inv3d and pj_inv4d; they differ in the order
\* of the dispatch and in the view of the coordinate they take and return.
Invoke(D, order, coo0, o) ==
    Prepared(D, order,
             IF ~D.skip_inv_prepare THEN pj_inv_prepare(D, Started(D, coo0), o)
             ELSE Started(D, coo0),
             o)

(* ------------------------- inputs and descriptors ---------------------- *)

\* Input coordinates: the limits of the range check, values within them and
\* up to MaxOver beyond them, and the sentinel.
Lons == {-LonLimit, 1, LonLimit, HUGE_VAL}
        \cup {LonLimit + k : k \in 1..MaxOver} \cup {-(LonLimit + k) : k \in 1..MaxOver}
Lats == {-(M_HALFPI + PJ_EPS_LAT), -M_HALFPI, 0, M_HALFPI - 1, M_HALFPI + PJ_EPS_LAT,
         HUGE_VAL}
        \cup {M_HALFPI + PJ_EPS_LAT + k : k \in 1..MaxOver}
        \cup {-(M_HALFPI + PJ_EPS_LAT + k) : k \in 1..MaxOver}
Heights == (1..MaxOver) \cup {HUGE_VAL}
Times == (1..MaxOver) \cup {HUGE_VAL}

\* The sub-operations a call with this descriptor can reach.
Reachable(D) ==
    (IF D.axisswap THEN {"axisswap"} ELSE {})
    \cup (IF D.hgridshift THEN {"hgridshift"} ELSE {})
    \cup (IF D.vgridshift THEN {"vgridshift"} ELSE {})
    \cup (IF D.helmert /\ ~D.hgridshift THEN {"cart", "helmert", "cart_wgs84"} ELSE {})
    \cup (IF D.is_geocent /\ D.right = PJ_IO_UNITS_CARTESIAN THEN {"cart"} ELSE {})

\* A failing sub-operation hands back either kind of sentinel coordinate, a
\* failing transform function a fully invalid coordinate of its own width.
Faults(D, order) ==
    {NoFault} \cup [who : Reachable(D), how : {"err", "lam"}]
    \cup [who : {Select(D, order)} \ {"none"}, how : {"err"}]

NoSubOps == [helmert |-> FALSE, hgridshift |-> FALSE, vgridshift |-> FALSE,
             axisswap |-> FALSE, geoc |-> FALSE, is_geocent |-> FALSE]

Descriptor(units, skips, subops, over, fns, z0) ==
    [right |-> units[1], left |-> units[2],
     skip_inv_prepare |-> skips[1], skip_inv_finalize |-> skips[2],
     helmert |-> subops.helmert, hgridshift |-> subops.hgridshift,
     vgridshift |-> subops.vgridshift, axisswap |-> subops.axisswap,
     geoc |-> subops.geoc, is_geocent |-> subops.is_geocent, over |-> over,
     inv |-> fns[1], inv3d |-> fns[2], inv4d |-> fns[3],
     to_meter |-> 2, vto_meter |-> 3, ra |-> 2, x0 |-> 1, y0 |-> 2, z0 |-> z0,
     lam0 |-> 1, from_greenwich |-> 2, errno |-> NoError]

Bools3 == BOOLEAN \X BOOLEAN \X BOOLEAN
SubOpSets == [helmert : BOOLEAN, hgridshift : BOOLEAN, vgridshift : BOOLEAN,
              axisswap : BOOLEAN, geoc : BOOLEAN, is_geocent : {FALSE}]

\* Descriptors without sub-operations: every unit kind, skip flag and set of
\* transform functions.
PlainDescriptors ==
    {Descriptor(<<u, l>>, sk, NoSubOps, 0, fns, 1) :
        u \in IoUnits, l \in {PJ_IO_UNITS_ANGULAR, PJ_IO_UNITS_PROJECTED},
        sk \in BOOLEAN \X BOOLEAN, fns \in Bools3}

\* Descriptors with sub-operations, angular output and the 4D transform.
ShiftDescriptors ==
    {Descriptor(<<u, PJ_IO_UNITS_ANGULAR>>, <<FALSE, FALSE>>, so, 0,
                <<FALSE, FALSE, TRUE>>, 0) :
        u \in {PJ_IO_UNITS_ANGULAR, PJ_IO_UNITS_PROJECTED, PJ_IO_UNITS_WHATEVER},
        so \in SubOpSets}

\* Descriptors that allow longitudes over range.
OverDescriptors ==
    {Descriptor(<<u, PJ_IO_UNITS_ANGULAR>>, <<FALSE, FALSE>>, NoSubOps, 1,
                <<TRUE, FALSE, FALSE>>, 0) :
        u \in {PJ_IO_UNITS_ANGULAR, PJ_IO_UNITS_PROJECTED}}

\* Geocentric cartesian descriptors, with and without skipping Prepare.
GeocentDescriptors ==
    {Descriptor(<<PJ_IO_UNITS_CARTESIAN, PJ_IO_UNITS_ANGULAR>>, <<sk, FALSE>>,
                [NoSubOps EXCEPT !.is_geocent = TRUE, !.helmert = h], 0,
                <<FALSE, TRUE, FALSE>>, 1) : sk \in BOOLEAN, h \in BOOLEAN}

Descriptors ==
    PlainDescriptors \cup ShiftDescriptors \cup OverDescriptors \cup GeocentDescriptors

(* ------------------------------- actions ------------------------------- *)

NoCall == [fn |-> "none", input |-> NoCoord, fault |-> NoFault, errno0 |-> NoError]

Init ==
    /\ P \in Descriptors
    /\ pc = "idle"
    /\ call = NoCall
    /\ log = <<>>
    /\ trace = NoTrace
    /\ result = <<>>

Returns(fn, coo0, o, r, w) ==
    /\ P' = [P EXCEPT !.errno = r.errno]
    /\ pc' = "returned"
    /\ call' = [fn |-> fn, input |-> coo0, fault |-> o, errno0 |-> P.errno]
    /\ log' = r.log
    /\ trace' = r.tr
    /\ result' = SubSeq(r.coo, 1, w)

\* LP pj_inv(XY xy, PJ *P)
pj_inv ==
    /\ pc = "idle"
    /\ \E x \in Lons, y \in Lats, o \in Faults(P, Order_pj_inv) :
         Returns("pj_inv", <<x, y, 0, 0>>, o,
                 Invoke(P, Order_pj_inv, <<x, y, 0, 0>>, o), 2)

\* LPZ pj_inv3d (XYZ xyz, PJ *P)
pj_inv3d ==
    /\ pc = "idle"
    /\ \E x \in Lons, y \in Lats, z \in Heights, o \in Faults(P, Order_pj_inv3d) :
         Returns("pj_inv3d", <<x, y, z, 0>>, o,
                 Invoke(P, Order_pj_inv3d, <<x, y, z, 0>>, o), 3)

\* PJ_COORD pj_inv4d (PJ_COORD coo, PJ *P)
pj_inv4d ==
    /\ pc = "idle"
    /\ \E x \in Lons, y \in Lats, z \in Heights, t \in Times,
          o \in Faults(P, Order_pj_inv4d) :
         Returns("pj_inv4d", <<x, y, z, t>>, o,
                 Invoke(P, Order_pj_inv4d, <<x, y, z, t>>, o), 4)

\* The caller takes the returned coordinate; the descriptor keeps the error
\* code recorded in it.
Collect ==
    /\ pc = "returned"
    /\ pc' = "idle"
    /\ UNCHANGED P
    /\ call' = NoCall
    /\ log' = <<>>
    /\ trace' = NoTrace
    /\ result' = <<>>

Next == pj_inv \/ pj_inv3d \/ pj_inv4d \/ Collect

Spec == Init /\ [][Next]_vars

(* ------------------------------ properties ---------------------------- *)

Abs(v) == IF v < 0 THEN -v ELSE v
Returned == pc = "returned"
In == call.input
AllSentinel(c) == \A i \in 1..Len(c) : c[i] = HUGE_VAL
OverRange(c) == Abs(c[2]) > M_HALFPI + PJ_EPS_LAT \/ Abs(c[1]) > LonLimit
Filled(c) ==
    <<c[1], c[2], IF P.helmert /\ c[3] = HUGE_VAL THEN 0 ELSE c[3],
                  IF P.helmert /\ c[4] = HUGE_VAL THEN 0 ELSE c[4]>>
\* The coordinate as it stands when the unit handling of Prepare starts.
Swapped == IF P.axisswap THEN log[1].ret ELSE Filled(In)
PrepareRan == Returned /\ trace.prepRan /\ In[1] # HUGE_VAL
OpsOf(stage) == {log[i].op : i \in {j \in 1..Len(log) : log[j].stage = stage}}
NoShiftOps ==
    ~P.axisswap /\ ~P.hgridshift /\ ~P.helmert /\ ~P.vgridshift /\ ~P.geoc
    /\ ~P.is_geocent
ShiftOps == {"hgridshift", "cart", "helmert", "cart_wgs84"}

\* C1: a call whose input x is HUGE_VAL records PJD_ERR_INVALID_X_OR_Y, returns
\* a sentinel coordinate and calls no sub-operation and no transform function,
\* whatever the descriptor (skip_inv_prepare included).
C1_SentinelInputFails ==
    (Returned /\ In[1] = HUGE_VAL) =>
        /\ P.errno = PJD_ERR_INVALID_X_OR_Y
        /\ AllSentinel(result)
        /\ log = <<>>

\* C2: after a surviving Prepare exactly one transform function is called, the
\* entry point's own when present, else the first present one in its fallback
\* order; with none present nothing is called, Finalize does not run, EINVAL is
\* recorded and a sentinel coordinate returned.
C2_Expected ==
    CASE call.fn = "pj_inv" ->
           IF P.inv THEN "inv" ELSE IF P.inv3d THEN "inv3d" ELSE "inv4d"
      [] call.fn = "pj_inv3d" ->
           IF P.inv3d THEN "inv3d" ELSE IF P.inv4d THEN "inv4d" ELSE "inv"
      [] call.fn = "pj_inv4d" ->
           IF P.inv4d THEN "inv4d" ELSE IF P.inv3d THEN "inv3d" ELSE "inv"

C2_DispatchRule ==
    (Returned /\ trace.prepOut[1] # HUGE_VAL) =>
        LET calls == SelectSeq(log, LAMBDA e : e.stage = "dispatch")
        IN IF ~P.inv /\ ~P.inv3d /\ ~P.inv4d
           THEN /\ calls = <<>>
                /\ ~trace.finRan
                /\ P.errno = EINVAL
                /\ AllSentinel(result)
           ELSE /\ Len(calls) = 1
                /\ calls[1].op = C2_Expected

C2_Witness ==
    /\ Returned
    /\ call.fn = "pj_inv4d"
    /\ ~P.inv4d /\ ~P.inv3d /\ P.inv
    /\ trace.xf = "inv"
    /\ result[1] # HUGE_VAL

\* C3 as stated: with angular input units, every input (x not HUGE_VAL) with
\* |lat| > 90 deg + eps or |lon| > 10 is rejected with
\* PJD_ERR_LAT_OR_LON_EXCEED_LIMIT and a sentinel coordinate, before any
\* geocentric conversion, grid shift, Helmert or cartesian sub-operation.
C3_AsStated ==
    (PrepareRan /\ P.right = PJ_IO_UNITS_ANGULAR /\ OverRange(In)) =>
        /\ trace.prepErr = PJD_ERR_LAT_OR_LON_EXCEED_LIMIT
        /\ trace.prepOut = proj_coord_error
        /\ OpsOf("prepare") \subseteq {"axisswap"}

\* C3 amended: the range check applies to the coordinate as it stands after the
\* axis swap (the input itself without an axis swap): when that coordinate is
\* over range, Prepare records PJD_ERR_LAT_OR_LON_EXCEED_LIMIT and returns a
\* sentinel coordinate, nothing but the axis swap was applied, and the entry
\* point returns a sentinel coordinate.
C3_RangeCheckAfterSwap ==
    (PrepareRan /\ P.right = PJ_IO_UNITS_ANGULAR /\ OverRange(Swapped)) =>
        /\ trace.prepErr = PJD_ERR_LAT_OR_LON_EXCEED_LIMIT
        /\ P.errno = PJD_ERR_LAT_OR_LON_EXCEED_LIMIT
        /\ trace.prepOut = proj_coord_error
        /\ OpsOf("prepare") \subseteq {"axisswap"}
        /\ OpsOf("dispatch") = {} /\ OpsOf("finalize") = {}
        /\ AllSentinel(result)

C3_Witness ==
    /\ PrepareRan /\ P.right = PJ_IO_UNITS_ANGULAR
    /\ P.axisswap /\ P.helmert /\ P.geoc /\ P.vgridshift
    /\ ~OverRange(In) /\ OverRange(Swapped)
    /\ call.errno0 = NoError
    /\ P.errno = PJD_ERR_LAT_OR_LON_EXCEED_LIMIT
    /\ Len(log) = 1

\* C4: with angular input units and no sub-operation configured, every input
\* with |lat| <= 90 deg + eps and |lon| <= 10 passes Prepare (no error code, no
\* sentinel) and the latitude returned is the input latitude clamped into
\* [-90 deg, 90 deg].
C4_InRangeClamped ==
    (PrepareRan /\ P.right = PJ_IO_UNITS_ANGULAR /\ NoShiftOps /\ ~OverRange(In)) =>
        /\ trace.prepErr = call.errno0
        /\ trace.prepOut[1] # HUGE_VAL
        /\ trace.prepOut[2] = (IF In[2] > M_HALFPI THEN M_HALFPI
                               ELSE IF In[2] < -M_HALFPI THEN -M_HALFPI ELSE In[2])
        /\ Abs(trace.prepOut[2]) <= M_HALFPI

C4_Witness ==
    /\ PrepareRan /\ P.right = PJ_IO_UNITS_ANGULAR /\ NoShiftOps
    /\ In[2] = -(M_HALFPI + PJ_EPS_LAT) /\ In[1] = LonLimit
    /\ trace.prepOut[2] = -M_HALFPI
    /\ trace.prepErr = NoError

C4_WitnessEquator ==
    /\ PrepareRan /\ P.right = PJ_IO_UNITS_ANGULAR /\ NoShiftOps
    /\ In[2] = 0 /\ trace.prepOut[2] = 0 /\ trace.prepOut[1] # HUGE_VAL

\* C5: in Prepare (angular input) and in Finalize, once a step of the
\* horizontal datum correction (the grid shift, or cart forward, helmert
\* forward, cart_wgs84 inverse) returns a sentinel longitude, no later step is
\* applied and the entry point returns a sentinel coordinate.
C5_ShiftStep(i) ==
    /\ log[i].op \in ShiftOps
    /\ log[i].op = "cart" => log[i].dir = "PJ_FWD"
    /\ log[i].ret[1] = HUGE_VAL

C5_SentinelStopsChain ==
    Returned =>
        \A i \in 1..Len(log) :
            C5_ShiftStep(i) => (i = Len(log) /\ result[1] = HUGE_VAL)

\* C6: with a Helmert sub-operation a sentinel height and a sentinel time are
\* replaced by 0 before the axis swap and before the Helmert chain, which is
\* handed what the preceding step returned; the missing height and time make no
\* call fail; without a Helmert sub-operation nothing is substituted.
C6_ChainArgs ==
    \A i \in 1..Len(log) :
        (log[i].stage = "prepare" /\ log[i].op \in {"cart", "helmert", "cart_wgs84"}
         /\ P.right = PJ_IO_UNITS_ANGULAR) =>
            IF log[i].op = "cart"
            THEN /\ log[i].arg[3] = Swapped[3]
                 /\ log[i].arg[4] = Swapped[4]
                 /\ ~P.axisswap => (log[i].arg[3] # HUGE_VAL /\ log[i].arg[4] # HUGE_VAL)
            ELSE log[i].arg = log[i - 1].ret

C6_HelmertFill ==
    PrepareRan =>
        /\ P.axisswap => (log # <<>> /\ log[1].op = "axisswap" /\ log[1].arg = Filled(In))
        /\ C6_ChainArgs
        /\ (P.helmert /\ call.fault = NoFault /\ In[2] # HUGE_VAL
            /\ (P.right = PJ_IO_UNITS_ANGULAR => ~OverRange(Swapped))) =>
                (trace.prepOut[1] # HUGE_VAL /\ trace.prepErr = call.errno0)
        /\ (~P.helmert /\ ~P.axisswap /\ P.right = PJ_IO_UNITS_WHATEVER) =>
                trace.prepOut = In
        /\ (~P.helmert /\ ~P.vgridshift /\ ~P.hgridshift /\ ~P.axisswap
            /\ P.right = PJ_IO_UNITS_ANGULAR /\ trace.prepOut[1] # HUGE_VAL) =>
                (trace.prepOut[3] = In[3] /\ trace.prepOut[4] = In[4])

C6_Witness ==
    /\ PrepareRan /\ P.helmert /\ ~P.hgridshift /\ P.axisswap
    /\ P.right = PJ_IO_UNITS_ANGULAR
    /\ In[3] = HUGE_VAL /\ In[4] = HUGE_VAL
    /\ \E i \in 1..Len(log) :
          log[i].op = "cart" /\ log[i].arg[3] = 0 /\ log[i].arg[4] = 0
    /\ trace.prepOut[1] # HUGE_VAL
    /\ trace.prepErr = NoError

\* C7 as stated: with only inv4d, pj_inv returns the first two components of
\* what Finalize made of inv4d's answer and inv4d is handed height 0 and time 0;
\* with only inv, pj_inv4d leaves height and time as they entered the dispatch.
C7_Only(f) == Has(P, f) /\ \A g \in {"inv", "inv3d", "inv4d"} \ {f} : ~Has(P, g)
C7_Done == Returned /\ trace.xf # "none" /\ trace.xfOut[1] # HUGE_VAL
C7_Last == IF trace.finRan THEN trace.finOut ELSE trace.xfOut

C7_Witness4D ==
    /\ C7_Done /\ call.fn = "pj_inv" /\ C7_Only("inv4d")
    /\ P.right = PJ_IO_UNITS_PROJECTED /\ ~P.skip_inv_prepare /\ P.z0 # 0
    /\ trace.xfIn[3] = -P.z0 /\ Len(result) = 2

\* C8: no call changes the descriptor, its recorded error code included.
C8_DescriptorImmutable == [][P' = P]_vars

\* C9: whenever a stage of a call sees HUGE_VAL in the first component, every
\* component of the coordinate returned is HUGE_VAL.
C9_Observed ==
    \/ In[1] = HUGE_VAL
    \/ trace.prepOut[1] = HUGE_VAL
    \/ trace.xf # "none" /\ trace.xfOut[1] = HUGE_VAL
    \/ \E i \in 1..Len(log) :
          log[i].stage = "finalize" /\ log[i].op # "geoc" /\ log[i].ret[1] = HUGE_VAL

C9_FullyInvalid ==
    (Returned /\ C9_Observed) => AllSentinel(result)

\* C10 as stated: with passthrough input units Prepare returns the input
\* unchanged for every descriptor and applies no sub-operation.
C10_AsStated ==
    (PrepareRan /\ P.right = PJ_IO_UNITS_WHATEVER) =>
        (trace.prepOut = In /\ OpsOf("prepare") = {})

\* C10 amended: with passthrough input units Prepare applies no scaling, no
\* offset and no sub-operation other than the axis swap: it returns the input
\* with a sentinel height or time replaced by 0 when a Helmert sub-operation is
\* configured, passed through the axis swap when one is configured, and so the
\* input itself when neither applies; it records no error.
C10_Passthrough ==
    (PrepareRan /\ P.right = PJ_IO_UNITS_WHATEVER) =>
        /\ trace.prepOut = Swapped
        /\ OpsOf("prepare") \subseteq {"axisswap"}
        /\ P.axisswap => log[1].arg = Filled(In)
        /\ trace.prepErr = call.errno0
        /\ (~P.axisswap /\ (~P.helmert \/ (In[3] # HUGE_VAL /\ In[4] # HUGE_VAL)))
              => trace.prepOut = In

C10_Witness ==
    /\ PrepareRan /\ P.right = PJ_IO_UNITS_WHATEVER
    /\ P.helmert /\ ~P.axisswap /\ P.hgridshift /\ P.vgridshift
    /\ In[3] = HUGE_VAL /\ In[4] = MaxOver
    /\ trace.prepOut = <<In[1], In[2], 0, MaxOver>>
    /\ log = <<>> \/ log[1].stage # "prepare"

====
